---- MODULE Spec2Model ----
(***************************************************************************)
(* Model of fixed_inventory_system.py: the module-level dictionary         *)
(* stock_data, the operations add_item, remove_item, get_quantity,         *)
(* check_low_items, load_data and save_data, and the one file they read    *)
(* and write.                                                              *)
(*                                                                         *)
(* Python values are tagged records [t |-> type name, v |-> payload]:      *)
(* a str is a sequence of one-character strings, an int its value, a bool  *)
(* 0 or 1 (bool is a subclass of int), a list the sequence of its          *)
(* elements, a dict the sequence of its entries [k, v] in insertion order. *)
(***************************************************************************)
EXTENDS Integers, Sequences, FiniteSets, TLC

VARIABLES
    stock_data,   \* the dict, as the sequence of its entries in insertion order
    file,         \* what is on disk at the path load_data/save_data are given
    last,         \* the last call: [op, item, qty, exc]; exc is the exception that escaped it
    result,       \* what the last call returned (<<value>> or the list), <<>> for None
    pre,          \* stock_data as it was when the last call began
    saved,        \* stock_data as it was at the last successful save_data
    savedValid    \* TRUE while the file is still the one that save_data wrote

vars == <<stock_data, file, last, result, pre, saved, savedValid>>

----------------------------------------------------------------------------
(* Bounds *)

\* add_item is not taken when the new total would exceed MaxQty.
MaxQty == 2

\* check_low_items(threshold: int = 5)
DefaultThreshold == 5

----------------------------------------------------------------------------
(* Python values *)

PyStr(s) == [t |-> "str", v |-> s]
PyInt(n) == [t |-> "int", v |-> n]
PyBool(b) == [t |-> "bool", v |-> IF b THEN 1 ELSE 0]
PyFloat(n) == [t |-> "float", v |-> n]
PyNone == [t |-> "NoneType", v |-> 0]
PyList(s) == [t |-> "list", v |-> s]
PyDict(s) == [t |-> "dict", v |-> s]
Entry(key, val) == [k |-> key, v |-> val]

\* isinstance(x, str), isinstance(x, int): True and False are ints
IsStr(x) == x.t = "str"
IsInt(x) == x.t \in {"int", "bool"}

\* str.strip(): drop the leading and the trailing whitespace
RECURSIVE LStrip(_)
LStrip(s) == IF s # <<>> /\ Head(s) = " " THEN LStrip(Tail(s)) ELSE s

RECURSIVE RStrip(_)
RStrip(s) ==
    IF s # <<>> /\ s[Len(s)] = " " THEN RStrip(SubSeq(s, 1, Len(s) - 1)) ELSE s

Strip(s) == RStrip(LStrip(s))

----------------------------------------------------------------------------
(* dict operations, on the sequence of entries *)

Keys(d) == {d[i].k : i \in DOMAIN d}
HasKey(d, key) == \E i \in DOMAIN d : d[i].k = key
IndexOf(d, key) == CHOOSE i \in DOMAIN d : d[i].k = key
\* d[key], for a key that is present
Lookup(d, key) == d[IndexOf(d, key)].v
\* d.get(key, default)
Get(d, key, default) == IF HasKey(d, key) THEN Lookup(d, key) ELSE default
\* d[key] = val: a present key keeps its position, a new key goes last
SetItem(d, key, val) ==
    IF HasKey(d, key)
    THEN [d EXCEPT ![IndexOf(d, key)] = Entry(key, val)]
    ELSE Append(d, Entry(key, val))
\* del d[key], for a key that is present
DelItem(d, key) ==
    LET i == IndexOf(d, key)
    IN  SubSeq(d, 1, i - 1) \o SubSeq(d, i + 1, Len(d))

----------------------------------------------------------------------------
(* Arguments the calls are made with *)

Items == { PyStr(<<"a">>), PyStr(<<"b">>), PyStr(<<>>), PyStr(<<" ">>), PyInt(1) }
Qtys == { PyInt(-1), PyInt(0), PyInt(1), PyInt(2), PyBool(TRUE), PyFloat(1) }
\* add_item and remove_item are called with every quantity for a valid name, and
\* with one valid quantity (and once a float) for every other item.
Args ==
    {a \in Items \X Qtys :
        \/ a[1] \in { PyStr(<<"a">>), PyStr(<<"b">>) }
        \/ a[2] = PyInt(1)
        \/ (a[1] = PyInt(1) /\ a[2] = PyFloat(1))}
Thresholds == (0 .. MaxQty) \cup { DefaultThreshold }

Call(op, item, qty, exc) == [op |-> op, item |-> item, qty |-> qty, exc |-> exc]

\* what a call leaves behind: the dict and the exception that escaped ("none" if none)
Outcome(d, exc) == [d |-> d, exc |-> exc]

----------------------------------------------------------------------------
(* add_item and remove_item *)

\* not (not isinstance(item, str) or item.strip() == "")
ValidItem(item) == IsStr(item) /\ Strip(item.v) # <<>>

\* the check without its range test: any int passes
ValidQty_anyInt(qty) == IsInt(qty)

\* not (not isinstance(qty, int) or qty < 0)
ValidQty(qty) == IsInt(qty) /\ qty.v >= 0

\* stock_data.get(item, 0) + qty can be evaluated: int + int. A str, a list or
\* None on the left raises TypeError.
CanAdd(cur) == IsInt(cur)

\* stock_data.get(item, 0) + qty
Plus(cur, qty) == PyInt(cur.v + qty.v)

add_item_outcome(d, item, qty) ==
    IF ~ValidItem(item) \/ ~ValidQty(qty)
    THEN Outcome(d, "none")
    ELSE LET cur == Get(d, item, PyInt(0))
         IN  IF CanAdd(cur)
             THEN Outcome(SetItem(d, item, Plus(cur, qty)), "none")
             ELSE Outcome(d, "TypeError")

\* the comparison made strict: qty > stock_data[item]
RemovesAll_strict(qty, cur) == qty.v > cur.v

\* qty >= stock_data[item]
RemovesAll(qty, cur) == qty.v >= cur.v

\* the operands taken the other way round: qty - stock_data[item]
Minus_swapped(cur, qty) == PyInt(qty.v - cur.v)

\* stock_data[item] -= qty
Minus(cur, qty) == PyInt(cur.v - qty.v)

remove_item_outcome(d, item, qty) ==
    IF ~ValidItem(item) \/ ~ValidQty(qty)
    THEN Outcome(d, "none")
    ELSE IF ~HasKey(d, item)
    THEN Outcome(d, "none")                  \* except KeyError
    ELSE LET cur == Lookup(d, item)
         IN  IF ~IsInt(cur)
             THEN Outcome(d, "none")         \* except TypeError
             ELSE IF RemovesAll(qty, cur)
             THEN Outcome(DelItem(d, item), "none")
             ELSE Outcome(SetItem(d, item, Minus(cur, qty)), "none")

\* The dict stays within the bounds of the model.
WithinBounds(d) ==
    \A i \in DOMAIN d : IsInt(d[i].v) => d[i].v.v <= MaxQty

add_item ==
    \E a \in Args :
        LET item == a[1]
            qty == a[2]
            o == add_item_outcome(stock_data, item, qty)
        IN  /\ WithinBounds(o.d)
            /\ stock_data' = o.d
            /\ last' = Call("add_item", item, qty, o.exc)
            /\ result' = <<>>
            /\ pre' = stock_data
            /\ UNCHANGED <<file, saved, savedValid>>

remove_item ==
    \E a \in Args :
        LET item == a[1]
            qty == a[2]
            o == remove_item_outcome(stock_data, item, qty)
        IN  /\ stock_data' = o.d
            /\ last' = Call("remove_item", item, qty, o.exc)
            /\ result' = <<>>
            /\ pre' = stock_data
            /\ UNCHANGED <<file, saved, savedValid>>

----------------------------------------------------------------------------
(* get_quantity and check_low_items *)

get_quantity ==
    \E item \in Items :
        /\ result' = << Get(stock_data, item, PyInt(0)) >>
        /\ last' = Call("get_quantity", item, PyNone, "none")
        /\ pre' = stock_data
        /\ UNCHANGED <<stock_data, file, saved, savedValid>>

\* quantity <= threshold can be evaluated
CanCompare(quantity) == IsInt(quantity)

\* quantity <= threshold
IsLow(quantity, threshold) == quantity.v <= threshold

RECURSIVE LowItems(_, _)
LowItems(d, threshold) ==
    IF d = <<>> THEN <<>>
    ELSE (IF IsLow(Head(d).v, threshold) THEN << Head(d).k >> ELSE <<>>)
             \o LowItems(Tail(d), threshold)

check_low_items ==
    \E threshold \in Thresholds :
        LET ok == \A i \in DOMAIN stock_data : CanCompare(stock_data[i].v)
        IN  /\ result' = IF ok THEN << PyList(LowItems(stock_data, threshold)) >>
                         ELSE <<>>
            /\ last' = Call("check_low_items", PyNone, PyInt(threshold),
                            IF ok THEN "none" ELSE "TypeError")
            /\ pre' = stock_data
            /\ UNCHANGED <<stock_data, file, saved, savedValid>>

----------------------------------------------------------------------------
(* The file: kind says what open() and read() meet, json is the JSON value *)
(* the text denotes when it is JSON (an object is the sequence of its      *)
(* members as written).                                                    *)

PlainFile(kind) == [kind |-> kind, json |-> PyNone]
JsonFile(j) == [kind |-> "json", json |-> j]

Missing == PlainFile("missing")          \* open() raises FileNotFoundError
Unreadable == PlainFile("unreadable")    \* open() or read() raises another OSError
Undecodable == PlainFile("undecodable")  \* bytes that are not UTF-8
Empty == PlainFile("empty")              \* zero-length
NotJson == PlainFile("notjson")          \* text json.loads rejects, e.g. not json

KeyA == PyStr(<<"a">>)
KeyB == PyStr(<<"b">>)

FileContents ==
    { Missing, Unreadable, Undecodable, Empty, NotJson,
      JsonFile(PyInt(5)),
      JsonFile(PyStr(<<"a", "b">>)),
      JsonFile(PyList(<< PyInt(1), PyInt(2) >>)),
      JsonFile(PyList(<< PyList(<< PyInt(1), PyInt(2) >>) >>)),
      JsonFile(PyDict(<< Entry(KeyA, PyInt(1)), Entry(KeyB, PyInt(2)) >>)),
      JsonFile(PyDict(<< Entry(KeyA, PyInt(-1)) >>)),
      JsonFile(PyDict(<< Entry(KeyA, PyStr(<<"x">>)) >>)),
      JsonFile(PyDict(<< Entry(PyStr(<<>>), PyInt(1)) >>)) }

----------------------------------------------------------------------------
(* load_data *)

\* dict(pairs): a repeated key keeps its first position and its last value
RECURSIVE FromPairs(_, _)
FromPairs(d, pairs) ==
    IF pairs = <<>> THEN d
    ELSE FromPairs(SetItem(d, Head(pairs).k, Head(pairs).v), Tail(pairs))

\* json.loads: an object becomes a dict, every other value is itself
Loads(j) == IF j.t = "dict" THEN PyDict(FromPairs(<<>>, j.v)) ELSE j

\* the characters of a str, as the strs a loop over it yields
Chars(s) == [i \in DOMAIN s |-> PyStr(<< s[i] >>)]

\* dict.update(iterable): every element must itself be a sequence of length 2,
\* (key, value), with a hashable key; the elements before a bad one are kept.
RECURSIVE UpdateFromSeq(_, _)
UpdateFromSeq(d, elems) ==
    IF elems = <<>> THEN Outcome(d, "none")
    ELSE LET e == Head(elems)
         IN  IF e.t = "list" /\ Len(e.v) = 2
             THEN IF e.v[1].t \in {"list", "dict"}
                  THEN Outcome(d, "TypeError")
                  ELSE UpdateFromSeq(SetItem(d, e.v[1], e.v[2]), Tail(elems))
             ELSE IF e.t = "str" /\ Len(e.v) = 2
             THEN UpdateFromSeq(SetItem(d, PyStr(<< e.v[1] >>), PyStr(<< e.v[2] >>)),
                                Tail(elems))
             ELSE IF e.t \in {"list", "str", "dict"}
             THEN Outcome(d, "ValueError")
             ELSE Outcome(d, "TypeError")

\* stock_data.update(new_data)
Update(d, new_data) ==
    IF new_data.t = "dict" THEN Outcome(FromPairs(d, new_data.v), "none")
    ELSE IF new_data.t = "list" THEN UpdateFromSeq(d, new_data.v)
    ELSE IF new_data.t = "str" THEN UpdateFromSeq(d, Chars(new_data.v))
    ELSE Outcome(d, "TypeError")

\* stock_data.clear()
Clear(d) == <<>>

load_data_outcome(d, f) ==
    IF f.kind = "missing" THEN Outcome(Clear(d), "none")          \* FileNotFoundError
    ELSE IF f.kind = "unreadable" THEN Outcome(Clear(d), "none")  \* IOError
    ELSE IF f.kind = "undecodable" THEN Outcome(d, "UnicodeDecodeError")
    ELSE IF f.kind = "empty" THEN Outcome(Clear(d), "none")       \* not data
    ELSE IF f.kind = "notjson" THEN Outcome(Clear(d), "none")     \* JSONDecodeError
    ELSE Update(Clear(d), Loads(f.json))

load_data ==
    LET o == load_data_outcome(stock_data, file)
    IN  /\ stock_data' = o.d
        /\ last' = Call("load_data", PyNone, PyNone, o.exc)
        /\ result' = <<>>
        /\ pre' = stock_data
        /\ UNCHANGED <<file, saved, savedValid>>

----------------------------------------------------------------------------
(* save_data *)

Digit == << "0", "1", "2", "3", "4", "5", "6", "7", "8", "9" >>

\* str(n) for an int
RECURSIVE NatToStr(_)
NatToStr(n) ==
    IF n < 10 THEN << Digit[n + 1] >>
    ELSE NatToStr(n \div 10) \o << Digit[(n % 10) + 1] >>

IntToStr(n) == IF n < 0 THEN << "-" >> \o NatToStr(-n) ELSE NatToStr(n)

\* json.dumps writes every key as a string
DumpsKey(key) ==
    IF key.t = "str" THEN key
    ELSE IF key.t = "bool"
    THEN PyStr(IF key.v = 1 THEN << "t", "r", "u", "e" >>
               ELSE << "f", "a", "l", "s", "e" >>)
    ELSE IF key.t = "NoneType" THEN PyStr(<< "n", "u", "l", "l" >>)
    ELSE PyStr(IntToStr(key.v))

\* json.dumps(stock_data, indent=4): the members in insertion order
Dumps(d) == PyDict([i \in DOMAIN d |-> Entry(DumpsKey(d[i].k), d[i].v)])

\* open(file, "w") truncates the file; a failed write leaves it cut short
save_data ==
    \E io \in {"ok", "open fails", "write fails"} :
        /\ file' = IF io = "ok" THEN JsonFile(Dumps(stock_data))
                   ELSE IF io = "open fails" THEN file
                   ELSE Empty
        /\ saved' = IF io = "ok" THEN stock_data
                    ELSE IF io = "open fails" THEN saved
                    ELSE <<>>
        /\ savedValid' = IF io = "ok" THEN TRUE
                         ELSE IF io = "open fails" THEN savedValid
                         ELSE FALSE
        /\ last' = Call("save_data", PyNone, PyNone, "none")
        /\ result' = <<>>
        /\ pre' = stock_data
        /\ UNCHANGED stock_data

\* Something other than save_data replaces the file.
file_changes ==
    \E c \in FileContents :
        /\ file' = c
        /\ saved' = <<>>
        /\ savedValid' = FALSE
        /\ last' = Call("file_changes", PyNone, PyNone, "none")
        /\ result' = <<>>
        /\ pre' = stock_data
        /\ UNCHANGED stock_data

----------------------------------------------------------------------------
(* The program: the dict is empty at import, no file has been written *)

Init ==
    /\ stock_data = <<>>
    /\ file \in FileContents
    /\ last = Call("import", PyNone, PyNone, "none")
    /\ result = <<>>
    /\ pre = <<>>
    /\ saved = <<>>
    /\ savedValid = FALSE

Next ==
    \/ add_item
    \/ remove_item
    \/ get_quantity
    \/ check_low_items
    \/ load_data
    \/ save_data
    \/ file_changes

Spec == Init /\ [][Next]_vars


\* The file is never written by the program: it holds what was put there.
NextStore ==
    \/ add_item
    \/ remove_item
    \/ get_quantity
    \/ check_low_items
    \/ load_data
    \/ file_changes

SpecStore == Init /\ [][NextStore]_vars

\* Only the in-memory operations are called: the dict holds what add_item put there.
NextInMemory ==
    \/ add_item
    \/ remove_item
    \/ get_quantity
    \/ check_low_items

SpecInMemory == Init /\ [][NextInMemory]_vars

\* Only add_item and remove_item are called.
NextAddRemove ==
    \/ add_item
    \/ remove_item

SpecAddRemove == Init /\ [][NextAddRemove]_vars

----------------------------------------------------------------------------
(* What the claims speak of *)

Entries(d) == {d[i] : i \in DOMAIN d}
\* the entries of every item but one
Others(d, item) == {e \in Entries(d) : e.k # item}
\* the quantity get_quantity(item) reports for the dict d
QuantityIn(d, item) == Get(d, item, PyInt(0))

\* the arguments a call was made with, stated from the specification's words
NameIsValid(item) == item.t = "str" /\ \E i \in DOMAIN item.v : item.v[i] # " "
QtyIsInteger(qty) == qty.t \in {"int", "bool"}
QtyIsValid(qty) == QtyIsInteger(qty) /\ qty.v >= 0
IsIntegerAtLeast(val, n) == val.t = "int" /\ val.v >= n

\* C1: after any sequence of add and remove calls from the empty store, every
\* key of the stock map has an integer quantity >= 1 (no key is kept at zero).
C1_NoKeyAtZero ==
    \A i \in DOMAIN stock_data : IsIntegerAtLeast(stock_data[i].v, 1)

\* C2: after add(item, qty) with a valid item and an integer qty >= 0, from any
\* store state, the call has returned, get_quantity(item) is its value before
\* the call plus qty, and every other item is unchanged.
C2_AddIncreasesByQty ==
    (last.op = "add_item" /\ NameIsValid(last.item) /\ QtyIsValid(last.qty))
    => /\ last.exc = "none"
       /\ QuantityIn(pre, last.item).t \in {"int", "bool"}
       /\ QuantityIn(stock_data, last.item).t \in {"int", "bool"}
       /\ QuantityIn(stock_data, last.item).v
              = QuantityIn(pre, last.item).v + last.qty.v
       /\ Others(stock_data, last.item) = Others(pre, last.item)

\* the last call was remove(item, qty) with valid arguments on an item that
\* was present with an integer stock
RemovedFromStock ==
    /\ last.op = "remove_item"
    /\ NameIsValid(last.item)
    /\ QtyIsValid(last.qty)
    /\ HasKey(pre, last.item)
    /\ Lookup(pre, last.item).t = "int"

\* the stock the item had when that call began
StockBefore == Lookup(pre, last.item).v

ValidationFailed ==
    /\ last.op \in {"add_item", "remove_item"}
    /\ (~NameIsValid(last.item) \/ ~QtyIsInteger(last.qty) \/ last.qty.v < 0)

\* C5: an add or remove whose item is no string or is empty or whitespace, or
\* whose qty is no integer or is negative, returns normally and leaves the
\* stock map as it was: same keys, same quantities, same order.
C5_ValidationFailureChangesNothing ==
    ValidationFailed => (last.exc = "none" /\ stock_data = pre)

\* a negative quantity was refused for an item in stock, in a map of two items
C5_Witness ==
    /\ ValidationFailed
    /\ last.qty = PyInt(-1)
    /\ HasKey(pre, last.item)
    /\ Len(stock_data) = 2

\* the file holds a JSON object
IsObject(f) == f.kind = "json" /\ f.json.t = "dict"

\* C6: load never raises to its caller, whatever the file holds, and on every
\* failure path (anything but a JSON object) the store is empty afterwards.
C6_LoadNeverRaises ==
    last.op = "load_data"
    => /\ last.exc = "none"
       /\ ~IsObject(file) => stock_data = <<>>

\* the file holds a flat mapping of non-blank string keys to integers >= 0
IsFlatMapping(f) ==
    /\ IsObject(f)
    /\ \A i \in DOMAIN f.json.v :
           /\ NameIsValid(f.json.v[i].k)
           /\ IsIntegerAtLeast(f.json.v[i].v, 0)

\* C7: load of a file that is not a flat mapping of string keys to integers
\* leaves the store empty, so that after any load every key is a non-empty
\* string mapped to an integer >= 0.
C7_LoadRejectsMalformed ==
    last.op = "load_data"
    => /\ ~IsFlatMapping(file) => stock_data = <<>>
       /\ \A i \in DOMAIN stock_data :
              /\ NameIsValid(stock_data[i].k)
              /\ IsIntegerAtLeast(stock_data[i].v, 0)

\* C8: after load of the file a successful save wrote, not modified since, the
\* key -> quantity mapping is the one the store had at the time of that save.
C8_SaveLoadRoundTrip ==
    (last.op = "load_data" /\ savedValid)
    => (last.exc = "none" /\ Entries(stock_data) = Entries(saved))

\* the entries the file's content provides
FileEntries(f) ==
    IF f.kind = "json" THEN Entries(Update(<<>>, Loads(f.json)).d) ELSE {}

\* C9: after any load, successful or not, the store holds nothing but what the
\* file provides: no earlier item survives; for a missing or zero-length file
\* the store is empty.
C9_LoadNeverMerges ==
    last.op = "load_data"
    => /\ Entries(stock_data) \subseteq FileEntries(file)
       /\ IsObject(file) => Entries(stock_data) = FileEntries(file)
       /\ file.kind \in {"missing", "empty"} => stock_data = <<>>

\* the position of an item in the iteration order of the map
Position(d, item) == CHOOSE i \in DOMAIN d : d[i].k = item

\* C10: check_low_items(threshold) returns exactly the items with quantity <=
\* threshold, each once, in the insertion order of the map, and leaves the
\* store unchanged, in every store state.
C10_LowItemsInInsertionOrder ==
    last.op = "check_low_items"
    => /\ last.exc = "none"
       /\ stock_data = pre
       /\ Len(result) = 1
       /\ LET r == result[1].v
          IN  /\ {r[i] : i \in DOMAIN r}
                     = {e.k : e \in {x \in Entries(stock_data) :
                                         /\ x.v.t \in {"int", "bool"}
                                         /\ x.v.v <= last.qty.v}}
              /\ \A i, j \in DOMAIN r :
                     i < j => Position(stock_data, r[i]) < Position(stock_data, r[j])

====
